---- MODULE Spec2Model ----
(***************************************************************************)
(* State-machine model of cg-local-app (src/src/main.rs): the Listener     *)
(* (run_accept), the Session Handlers (handle_accept / handle_deny), the   *)
(* Controller (run_controller), the watcher dispatch tasks (spawn_worker)  *)
(* and the interactive main thread (main), connected by the capacity-1     *)
(* channels created in spawn_worker.                                       *)
(***************************************************************************)
EXTENDS Naturals, Sequences, FiniteSets

(* ------------------------------ bounds --------------------------------- *)
\* connections made by peers
MaxConn == 2
\* inputs from outside the program, all together: connections, frames sent by
\* peers, modifications of the target file and button presses in the UI
MaxEvents == 5

(* --------------------------- program constants ------------------------- *)
\* async_std::channel::bounded(1), main.rs:494-498
ChannelCap == 1
\* semaphore::Semaphore::new(1, ()), main.rs:332
PermitCapacity == 1

Conns == 1..MaxConn
Codes == {"a", "b"}
\* content left behind by a write that failed after truncating the file
Truncated == "trunc"
DetailValues == {[title |-> "Foo", question_id |-> 42], [title |-> "Bar", question_id |-> 7]}

VARIABLES
    lstPc,              \* run_accept: "bind", "loop", "done", "failed"
    sessPc,             \* per connection: position of its peer/task
    kind,               \* per connection: "none", "accept", "deny" (which task was spawned)
    sessMsg,            \* per connection: notification being sent on tx_conn_notification
    out,                \* per connection: frames the task has sent to the peer
    rxLock,             \* holder of the Mutex around rx_connected (0: free)
    permitsHeld,        \* guards of the admission semaphore `res` that are alive
    connected,          \* channel tx_connected -> rx_connected
    listen,             \* channel tx_listen -> rx_listen
    conn_notification,  \* channel tx_conn_notification -> rx_conn_notification
    controller,         \* channel tx_controller -> rx_controller
    notification,       \* std::sync::mpsc channel tx_notification -> rx_notification
    ctlPc,              \* run_controller: position
    ctlMsg,             \* run_controller: code of the message being handled
    send_code_pending,  \* run_controller: local flag
    syncing,            \* history: a Start was handled and no Stop since
    cascade,            \* history: Terminate was handled while syncing with a session in its loop
    optsLock,           \* holder of the Mutex around Opts ("free", "ctl", "watcher")
    play,               \* opts.play
    file,               \* content of the target file
    wWaiting,           \* watcher tasks spawned and waiting for the Opts lock
    wSend,              \* message of the watcher task that holds the Opts lock
    mainPc,             \* main thread: "ui", "send", "toggle", "running", "join", "exited"
    mainMsg,            \* main thread: command being sent to the worker
    dialog,             \* layer shown by the UI: "waiting", "initial", "running"
    exitStatus,         \* "none", "ok", "error", "panic"
    nEvents,            \* inputs from outside the program so far
    writes,             \* history: calls of std::fs::write made by the Controller
    lastWrite,          \* history: result of the last of them ("none" before the first)
    dlStarts,           \* history: Start{download: true} commands handled
    detailsIn,          \* history: details frames handled by Session Handlers
    detailsOut,         \* history: Details notifications emitted to Presentation
    cmdLog,             \* history: commands the Controller has sent to the Session
    issuedAt,           \* history: for each command in `connected`, the number of connections
                        \* accepted before it was sent
    sendFailed,         \* history: a send on an internal channel has failed in a task of the worker
    readFailed          \* history: a watcher task has failed to read the target file

sessVars == <<sessPc, kind, sessMsg, out, rxLock>>
chanVars == <<connected, listen, conn_notification, controller, notification>>
ctlVars  == <<ctlPc, ctlMsg, send_code_pending, syncing, cascade>>
optVars  == <<optsLock, play, file>>
watchVars == <<wWaiting, wSend>>
mainVars == <<mainPc, mainMsg, dialog, exitStatus>>
boundVars == <<nEvents>>
dlVars == <<writes, lastWrite, dlStarts, detailsIn, detailsOut>>
logVars == <<cmdLog, issuedAt, sendFailed, readFailed>>
histVars == <<dlVars, logVars>>
vars == <<lstPc, permitsHeld, sessVars, chanVars, ctlVars, optVars, watchVars, mainVars, boundVars, histVars>>

(* ------------------------------ messages ------------------------------- *)
\* enum ServerMessage as sent by the bridge, main.rs:126-157
SendDetails == [action |-> "send-details"]
AppReady == [action |-> "app-ready"]
AlreadyConnected == [action |-> "already-connected"]
SendCode == [action |-> "send-code"]
UpdateCode(code, p) == [action |-> "update-code", code |-> code, play |-> p]
ErrorFrame(message) == [action |-> "error", message |-> message]

\* what a peer can put on the wire: the two variants the session forwards, another
\* well-formed variant, a text that does not parse and a non-text message
PeerFrames ==
    {[action |-> "details", title |-> d.title, question_id |-> d.question_id] : d \in DetailValues}
    \cup {[action |-> "code", code |-> c] : c \in Codes}
    \cup {[action |-> "set-read-only"], [action |-> "unparsable"], [action |-> "binary"]}

(* ------------------------------ helpers -------------------------------- *)
Running == mainPc # "exited"
CtlGone == ctlPc \in {"done", "failed"}
LstGone == lstPc \in {"done", "failed"}
InTask(i) == sessPc[i] \in {"handshake", "lock", "select", "notify"}
\* the Arc around rx_connected is held by run_accept and by every accept task
ConnectedRxGone == LstGone /\ \A i \in Conns : ~(kind[i] = "accept" /\ InTask(i))
\* mutant of HasRoom: a send completes while the channel holds one message more
\* than its capacity
HasRoom_OneMore(ch) == Len(ch) < ChannelCap + 1

\* a send on a bounded channel completes only when the channel is not full
HasRoom(ch) == Len(ch) < ChannelCap

\* semaphore::Semaphore::try_access on a semaphore with `held` permits in use
try_access(held) == IF held < PermitCapacity THEN "Ok" ELSE "NoCapacity"

Init ==
    /\ lstPc = "bind"
    /\ sessPc = [i \in Conns |-> "idle"]
    /\ kind = [i \in Conns |-> "none"]
    /\ sessMsg = [i \in Conns |-> <<>>]
    /\ out = [i \in Conns |-> <<>>]
    /\ rxLock = 0
    /\ permitsHeld = 0
    /\ connected = <<>> /\ listen = <<>> /\ conn_notification = <<>>
    /\ controller = <<>> /\ notification = <<>>
    /\ ctlPc = "select" /\ ctlMsg = "" /\ send_code_pending = FALSE
    /\ syncing = FALSE /\ cascade = FALSE
    /\ optsLock = "free" /\ play = FALSE /\ file = "a"
    /\ wWaiting = 0 /\ wSend = <<>>
    /\ mainPc = "ui" /\ mainMsg = <<>> /\ dialog = "waiting" /\ exitStatus = "none"
    /\ nEvents = 0
    /\ writes = 0 /\ lastWrite = "none" /\ dlStarts = 0 /\ detailsIn = <<>> /\ detailsOut = <<>>
    /\ cmdLog = <<>> /\ issuedAt = <<>> /\ sendFailed = FALSE /\ readFailed = FALSE

(* --------------------------- the environment --------------------------- *)
\* the target file is modified from outside; hotwatch calls the closure of
\* main.rs:504-532, which spawns one task per matching event
FileModified(c) ==
    /\ Running /\ nEvents < MaxEvents /\ ~CtlGone
    /\ c # file
    /\ file' = c
    /\ wWaiting' = wWaiting + 1
    /\ nEvents' = nEvents + 1
    /\ UNCHANGED <<lstPc, permitsHeld, sessVars, chanVars, ctlVars, optsLock, play, wSend,
                   mainVars, histVars>>

(* ----------------------------- run_accept ------------------------------ *)
\* TcpListener::bind(&addr).await? succeeds
ListenerBind ==
    /\ Running /\ lstPc = "bind"
    /\ lstPc' = "loop"
    /\ UNCHANGED <<permitsHeld, sessVars, chanVars, ctlVars, optVars, watchVars, mainVars,
                   boundVars, histVars>>

\* TcpListener::bind(&addr).await? fails: run_accept returns the error
ListenerBindFail ==
    /\ Running /\ lstPc = "bind"
    /\ lstPc' = "failed"
    /\ UNCHANGED <<permitsHeld, sessVars, chanVars, ctlVars, optVars, watchVars, mainVars,
                   boundVars, histVars>>

\* the task spawned for an accepted connection, from the result of try_access
SpawnedFor(r) == IF r = "Ok" THEN "accept" ELSE "deny"

\* the guard returned by try_access is the temporary of the match scrutinee
\* (`Ok(_)` binds nothing and the spawned task is not given it): it is dropped
\* when the match statement ends, so no guard outlives the accept that took it
GuardsAfterMatch(held, r) == held

\* the accept branch of the select! with the next connection of a peer,
\* main.rs:337-358
ListenerAccept ==
    /\ Running /\ lstPc = "loop"
    /\ nEvents < MaxEvents
    /\ nEvents' = nEvents + 1
    /\ \E i \in Conns :
        /\ sessPc[i] = "idle"
        /\ \A j \in Conns : j < i => sessPc[j] # "idle"
        /\ LET r == try_access(permitsHeld) IN
            /\ kind' = [kind EXCEPT ![i] = SpawnedFor(r)]
            /\ sessPc' = [sessPc EXCEPT ![i] = "handshake"]
            /\ permitsHeld' = GuardsAfterMatch(permitsHeld, r)
    /\ UNCHANGED <<lstPc, sessMsg, out, rxLock, chanVars, ctlVars, optVars,
                   watchVars, mainVars, histVars>>

\* the rx_listen branch of the select!, main.rs:360-364: Some(Terminate), or
\* None once run_controller has returned and dropped tx_listen
ListenerTerminate ==
    /\ Running /\ lstPc = "loop"
    /\ (listen = <<>>) => CtlGone
    /\ listen' = IF listen = <<>> THEN listen ELSE Tail(listen)
    /\ lstPc' = "done"
    /\ UNCHANGED <<permitsHeld, sessVars, connected, conn_notification, controller, notification,
                   ctlVars, optVars, watchVars, mainVars, boundVars, histVars>>

(* ------------------- handle_accept / handle_deny ----------------------- *)
Release(i) == IF rxLock = i THEN 0 ELSE rxLock

\* mutant of SessHandshake: the task enters its loop without asking for details
SessHandshake_NoRequest(i) ==
    /\ Running /\ sessPc[i] = "handshake"
    /\ sessPc' = [sessPc EXCEPT ![i] = IF kind[i] = "accept" THEN "lock" ELSE "closed"]
    /\ UNCHANGED <<lstPc, permitsHeld, kind, sessMsg, out, rxLock, chanVars,
                   ctlVars, optVars, watchVars, mainVars, boundVars, histVars>>

\* accept_async and the first send: `send-details` for an admitted connection
\* (main.rs:175-179), `already-connected` and close for a denied one (262-269)
SessHandshake(i) ==
    /\ Running /\ sessPc[i] = "handshake"
    /\ IF kind[i] = "accept"
       THEN /\ out' = [out EXCEPT ![i] = Append(@, SendDetails)]
            /\ sessPc' = [sessPc EXCEPT ![i] = "lock"]
       ELSE /\ out' = [out EXCEPT ![i] = Append(@, AlreadyConnected)]
            /\ sessPc' = [sessPc EXCEPT ![i] = "closed"]
    /\ UNCHANGED <<lstPc, permitsHeld, kind, sessMsg, rxLock, chanVars,
                   ctlVars, optVars, watchVars, mainVars, boundVars, histVars>>

\* accept_async(stream).await? fails (the peer is gone or does not speak the
\* protocol): the task returns before it has sent anything
SessHandshakeFail(i) ==
    /\ Running /\ sessPc[i] = "handshake"
    /\ sessPc' = [sessPc EXCEPT ![i] = "closed"]
    /\ UNCHANGED <<lstPc, permitsHeld, kind, sessMsg, out, rxLock, chanVars,
                   ctlVars, optVars, watchVars, mainVars, boundVars, histVars>>

\* top of the loop: rx_connected.lock().await, main.rs:182
SessLock(i) ==
    /\ Running /\ sessPc[i] = "lock"
    /\ rxLock = 0
    /\ rxLock' = i
    /\ sessPc' = [sessPc EXCEPT ![i] = "select"]
    /\ UNCHANGED <<lstPc, permitsHeld, kind, sessMsg, out, chanVars,
                   ctlVars, optVars, watchVars, mainVars, boundVars, histVars>>

\* mutant of NotificationOf: the question id of a details frame is not copied
NotificationOf_NoId(f) ==
    IF f.action = "details"
    THEN [type |-> "Details", title |-> f.title, question_id |-> 0]
    ELSE [type |-> "Code", code |-> f.code]

\* the notification a forwarded frame becomes, main.rs:195-200
NotificationOf(f) ==
    IF f.action = "details"
    THEN [type |-> "Details", title |-> f.title, question_id |-> f.question_id]
    ELSE [type |-> "Code", code |-> f.code]

\* the reply to a frame that is not forwarded, main.rs:201-209
ReplyTo(f) ==
    IF f.action = "unparsable" THEN ErrorFrame("parse error") ELSE ErrorFrame("unexpected message")

\* the task after ws_stream.send(frame).await?: the frame is delivered and the
\* loop goes on, or the send fails and handle_accept returns
AfterWsSend(i, frame, delivered) ==
    IF delivered
    THEN /\ out' = [out EXCEPT ![i] = Append(@, frame)]
         /\ sessPc' = [sessPc EXCEPT ![i] = "lock"]
    ELSE /\ out' = out
         /\ sessPc' = [sessPc EXCEPT ![i] = "closed"]

\* the websocket branch of the select! with Some(msg) = f, main.rs:185-211
SessFrame(i, f) ==
    /\ Running /\ sessPc[i] = "select"
    /\ nEvents < MaxEvents
    /\ nEvents' = nEvents + 1
    /\ CASE f.action \in {"details", "code"} ->
              /\ sessMsg' = [sessMsg EXCEPT ![i] = <<NotificationOf(f)>>]
              /\ sessPc' = [sessPc EXCEPT ![i] = "notify"]
              /\ detailsIn' = IF f.action = "details"
                              THEN Append(detailsIn, [title |-> f.title, question_id |-> f.question_id])
                              ELSE detailsIn
              /\ UNCHANGED <<out, rxLock>>
         [] f.action \in {"set-read-only", "unparsable"} ->
              /\ \E delivered \in BOOLEAN : AfterWsSend(i, ReplyTo(f), delivered)
              /\ rxLock' = Release(i)
              /\ UNCHANGED <<sessMsg, detailsIn>>
         [] OTHER ->
              /\ sessPc' = [sessPc EXCEPT ![i] = "lock"]
              /\ rxLock' = Release(i)
              /\ UNCHANGED <<sessMsg, detailsIn, out>>
    /\ UNCHANGED <<lstPc, permitsHeld, kind, chanVars, ctlVars, optVars, watchVars,
                   mainVars, writes, lastWrite, dlStarts, detailsOut, logVars>>

\* the websocket branch with None (the peer closed: break, main.rs:212-214) or
\* with Some(Err(_)) (a protocol or encoding error: `msg?` returns, main.rs:187)
SessPeerClosed(i) ==
    /\ Running /\ sessPc[i] = "select"
    /\ sessPc' = [sessPc EXCEPT ![i] = "closed"]
    /\ rxLock' = Release(i)
    /\ UNCHANGED <<lstPc, permitsHeld, kind, sessMsg, out, chanVars,
                   ctlVars, optVars, watchVars, mainVars, boundVars, histVars>>

\* tx_conn_notification.send(..).await completes; the iteration ends and the
\* lock guard of main.rs:182 is dropped
SessNotify(i) ==
    /\ Running /\ sessPc[i] = "notify"
    /\ ~CtlGone /\ HasRoom(conn_notification)
    /\ conn_notification' = Append(conn_notification, Head(sessMsg[i]))
    /\ sessMsg' = [sessMsg EXCEPT ![i] = <<>>]
    /\ sessPc' = [sessPc EXCEPT ![i] = "lock"]
    /\ rxLock' = Release(i)
    /\ UNCHANGED <<lstPc, permitsHeld, kind, out, connected, listen, controller,
                   notification, ctlVars, optVars, watchVars, mainVars, boundVars, histVars>>

\* tx_conn_notification.send(..).await? fails: the Controller has dropped the
\* receiver; handle_accept returns the error, accept_connection logs it
SessNotifyFail(i) ==
    /\ Running /\ sessPc[i] = "notify"
    /\ CtlGone
    /\ sessMsg' = [sessMsg EXCEPT ![i] = <<>>]
    /\ sessPc' = [sessPc EXCEPT ![i] = "closed"]
    /\ rxLock' = Release(i)
    /\ sendFailed' = TRUE
    /\ UNCHANGED <<lstPc, permitsHeld, kind, out, chanVars,
                   ctlVars, optVars, watchVars, mainVars, boundVars, dlVars, cmdLog, issuedAt, readFailed>>

\* mutant of FrameOf: the play flag of the command is not copied into the frame
FrameOf_NoPlay(m) ==
    CASE m.type = "AppReady" -> AppReady
      [] m.type = "UpdateCode" -> UpdateCode(m.code, FALSE)
      [] OTHER -> SendCode

\* the frame a ConnectedMessage is sent as, main.rs:222-230
FrameOf(m) ==
    CASE m.type = "AppReady" -> AppReady
      [] m.type = "UpdateCode" -> UpdateCode(m.code, m.play)
      [] OTHER -> SendCode

\* the command branch of the select! with Some(msg), main.rs:217-232
SessCommand(i) ==
    /\ Running /\ sessPc[i] = "select"
    /\ connected # <<>>
    /\ LET m == Head(connected) IN
        /\ connected' = Tail(connected)
        /\ issuedAt' = Tail(issuedAt)
        /\ rxLock' = Release(i)
        /\ IF m.type = "Terminate"
           THEN /\ sessPc' = [sessPc EXCEPT ![i] = "closed"]
                /\ out' = out
           ELSE \E delivered \in BOOLEAN : AfterWsSend(i, FrameOf(m), delivered)
    /\ UNCHANGED <<lstPc, permitsHeld, kind, sessMsg, listen, conn_notification,
                   controller, notification, ctlVars, optVars, watchVars, mainVars, boundVars,
                   dlVars, cmdLog, sendFailed, readFailed>>

\* the command branch with None: tx_connected was dropped, break (main.rs:233-235)
SessChannelClosed(i) ==
    /\ Running /\ sessPc[i] = "select"
    /\ connected = <<>> /\ CtlGone
    /\ sessPc' = [sessPc EXCEPT ![i] = "closed"]
    /\ rxLock' = Release(i)
    /\ UNCHANGED <<lstPc, permitsHeld, kind, sessMsg, out, chanVars,
                   ctlVars, optVars, watchVars, mainVars, boundVars, histVars>>

(* ---------------------------- run_controller --------------------------- *)
\* the connections accepted so far
Accepted == Cardinality({i \in Conns : sessPc[i] # "idle"})

CtlSelect(ch, type) == Running /\ ctlPc = "select" /\ ch # <<>> /\ Head(ch).type = type

\* WorkerMessage::FileChanged taken from rx_controller, main.rs:388-391; the
\* arguments of the send are evaluated next, starting with state.opts.lock()
CtlFileChanged ==
    /\ CtlSelect(controller, "FileChanged")
    /\ controller' = Tail(controller)
    /\ ctlMsg' = Head(controller).code
    /\ ctlPc' = "readPlay"
    /\ UNCHANGED <<lstPc, permitsHeld, sessVars, connected, listen, conn_notification,
                   notification, send_code_pending, syncing, cascade, optVars, watchVars,
                   mainVars, boundVars, histVars>>

\* state.opts.lock().await.play, main.rs:391: the guard is a temporary of the
\* send statement and stays alive until the send has completed
CtlReadPlay ==
    /\ Running /\ ctlPc = "readPlay"
    /\ optsLock = "free"
    /\ optsLock' = "ctl"
    /\ ctlMsg' = [type |-> "UpdateCode", code |-> ctlMsg, play |-> play]
    /\ ctlPc' = "sendUpdate"
    /\ UNCHANGED <<lstPc, permitsHeld, sessVars, chanVars, send_code_pending, syncing, cascade,
                   play, file, watchVars, mainVars, boundVars, histVars>>

\* tx_connected.send(ConnectedMessage::UpdateCode{..}).await completes, main.rs:391
CtlSendUpdateCode ==
    /\ Running /\ ctlPc = "sendUpdate"
    /\ ~ConnectedRxGone /\ HasRoom(connected)
    /\ connected' = Append(connected, ctlMsg)
    /\ cmdLog' = Append(cmdLog, ctlMsg)
    /\ issuedAt' = Append(issuedAt, Accepted)
    /\ optsLock' = "free"
    /\ ctlMsg' = ""
    /\ ctlPc' = "select"
    /\ UNCHANGED <<lstPc, permitsHeld, sessVars, listen, conn_notification, controller,
                   notification, send_code_pending, syncing, cascade, play, file, watchVars,
                   mainVars, boundVars, dlVars, sendFailed, readFailed>>

\* WorkerMessage::WatchError: logged, main.rs:395-397
CtlWatchError ==
    /\ CtlSelect(controller, "WatchError")
    /\ controller' = Tail(controller)
    /\ UNCHANGED <<lstPc, permitsHeld, sessVars, connected, listen, conn_notification,
                   notification, ctlVars, optVars, watchVars, mainVars, boundVars, histVars>>

\* mutant of CtlStart: the UI is notified before AppReady is sent
CtlStart_NotifyFirst ==
    /\ CtlSelect(controller, "Start")
    /\ controller' = Tail(controller)
    /\ send_code_pending' = Head(controller).download
    /\ syncing' = TRUE
    /\ dlStarts' = IF Head(controller).download THEN dlStarts + 1 ELSE dlStarts
    /\ notification' = Append(notification, [type |-> "Initialized"])
    /\ ctlPc' = "sendAppReady"
    /\ UNCHANGED <<lstPc, permitsHeld, sessVars, connected, listen, conn_notification,
                   ctlMsg, cascade, optVars, watchVars, mainVars, boundVars,
                   writes, lastWrite, detailsIn, detailsOut, logVars>>

\* WorkerMessage::Start{download}, main.rs:398-405, up to the send of AppReady
CtlStart ==
    /\ CtlSelect(controller, "Start")
    /\ controller' = Tail(controller)
    /\ send_code_pending' = Head(controller).download
    /\ syncing' = TRUE
    /\ dlStarts' = IF Head(controller).download THEN dlStarts + 1 ELSE dlStarts
    /\ ctlPc' = "sendAppReady"
    /\ UNCHANGED <<lstPc, permitsHeld, sessVars, connected, listen, conn_notification,
                   notification, ctlMsg, cascade, optVars, watchVars, mainVars, boundVars,
                   writes, lastWrite, detailsIn, detailsOut, logVars>>

\* tx_connected.send(AppReady).await completes, then Initialized is sent to the
\* UI, main.rs:405-408
CtlSendAppReady ==
    /\ Running /\ ctlPc = "sendAppReady"
    /\ ~ConnectedRxGone /\ HasRoom(connected)
    /\ connected' = Append(connected, [type |-> "AppReady"])
    /\ cmdLog' = Append(cmdLog, [type |-> "AppReady"])
    /\ issuedAt' = Append(issuedAt, Accepted)
    /\ notification' = Append(notification, [type |-> "Initialized"])
    /\ ctlPc' = "select"
    /\ UNCHANGED <<lstPc, permitsHeld, sessVars, listen, conn_notification, controller,
                   ctlMsg, send_code_pending, syncing, cascade, optVars, watchVars, mainVars,
                   boundVars, dlVars, sendFailed, readFailed>>

\* mutant of CtlStop: Stopped is reported only when a synchronisation was running
CtlStop_OnlyWhenSyncing ==
    /\ CtlSelect(controller, "Stop")
    /\ controller' = Tail(controller)
    /\ send_code_pending' = FALSE
    /\ syncing' = FALSE
    /\ notification' = IF syncing THEN Append(notification, [type |-> "Stopped"]) ELSE notification
    /\ UNCHANGED <<lstPc, permitsHeld, sessVars, connected, listen, conn_notification,
                   ctlPc, ctlMsg, cascade, optVars, watchVars, mainVars, boundVars, histVars>>

\* WorkerMessage::Stop, main.rs:412-422
CtlStop ==
    /\ CtlSelect(controller, "Stop")
    /\ controller' = Tail(controller)
    /\ send_code_pending' = FALSE
    /\ syncing' = FALSE
    /\ notification' = Append(notification, [type |-> "Stopped"])
    /\ UNCHANGED <<lstPc, permitsHeld, sessVars, connected, listen, conn_notification,
                   ctlPc, ctlMsg, cascade, optVars, watchVars, mainVars, boundVars, histVars>>

\* WorkerMessage::Terminate: break, main.rs:423-425
CtlTerminate ==
    /\ CtlSelect(controller, "Terminate")
    /\ controller' = Tail(controller)
    /\ ctlPc' = "termConnected"
    /\ cascade' = (syncing /\ \E i \in Conns : kind[i] = "accept" /\ sessPc[i] \in {"lock", "select", "notify"})
    /\ UNCHANGED <<lstPc, permitsHeld, sessVars, connected, listen, conn_notification,
                   notification, ctlMsg, send_code_pending, syncing, optVars, watchVars,
                   mainVars, boundVars, histVars>>

\* ConnectedNotification::Details, main.rs:435-443
CtlDetails ==
    /\ CtlSelect(conn_notification, "Details")
    /\ conn_notification' = Tail(conn_notification)
    /\ LET m == Head(conn_notification) IN
        /\ notification' = Append(notification,
               [type |-> "Details", title |-> m.title, question_id |-> m.question_id])
        /\ detailsOut' = Append(detailsOut, [title |-> m.title, question_id |-> m.question_id])
    /\ UNCHANGED <<lstPc, permitsHeld, sessVars, connected, listen, controller, ctlVars,
                   optVars, watchVars, mainVars, boundVars, writes, lastWrite, dlStarts, detailsIn,
                   logVars>>

\* mutant of CtlCode: the code is written whether or not a download is pending
CtlCode_IgnoresPending ==
    /\ CtlSelect(conn_notification, "Code")
    /\ conn_notification' = Tail(conn_notification)
    /\ ctlMsg' = Head(conn_notification).code /\ ctlPc' = "write"
    /\ UNCHANGED <<lstPc, permitsHeld, sessVars, connected, listen, controller, notification,
                   send_code_pending, syncing, cascade, optVars, watchVars, mainVars,
                   boundVars, histVars>>

\* ConnectedNotification::Code, main.rs:444-447: discarded unless
\* send_code_pending; otherwise the write follows, after state.opts.lock()
CtlCode ==
    /\ CtlSelect(conn_notification, "Code")
    /\ conn_notification' = Tail(conn_notification)
    /\ IF send_code_pending
       THEN ctlMsg' = Head(conn_notification).code /\ ctlPc' = "write"
       ELSE UNCHANGED <<ctlMsg, ctlPc>>
    /\ UNCHANGED <<lstPc, permitsHeld, sessVars, connected, listen, controller, notification,
                   send_code_pending, syncing, cascade, optVars, watchVars, mainVars,
                   boundVars, histVars>>

\* the content of the target file after std::fs::write(target, code) with result r:
\* written, failed before touching the file, or failed after truncating it
FileAfterWrite(r, code) ==
    CASE r = "ok" -> code
      [] r = "truncated" -> Truncated
      [] OTHER -> file

\* mutant of PendingAfterWrite: the flag is cleared in the Ok arm only, so a
\* failed write is tried again with the next Code notification
PendingAfterWrite_Retry(r) == r # "ok"

\* send_code_pending after the match on the result of the write, main.rs:456
PendingAfterWrite(r) == FALSE

\* std::fs::write(&state.opts.lock().await.target, code) and what follows it,
\* main.rs:448-457; a write that touches the file raises a watch event
CtlWrite ==
    /\ Running /\ ctlPc = "write"
    /\ optsLock = "free"
    /\ \E r \in {"ok", "failed", "truncated"} :
        /\ file' = FileAfterWrite(r, ctlMsg)
        /\ wWaiting' = IF r = "failed" THEN wWaiting ELSE wWaiting + 1
        /\ send_code_pending' = PendingAfterWrite(r)
        /\ lastWrite' = r
    /\ writes' = writes + 1
    /\ ctlMsg' = ""
    /\ ctlPc' = "select"
    /\ UNCHANGED <<lstPc, permitsHeld, sessVars, chanVars, syncing, cascade, optsLock, play,
                   wSend, mainVars, boundVars, dlStarts, detailsIn, detailsOut, logVars>>

\* tx_connected.send(..).await? fails because every holder of rx_connected is
\* gone: run_controller returns the error (main.rs:391, 405, 470)
CtlSendFail ==
    /\ Running /\ ctlPc \in {"sendUpdate", "sendAppReady", "termConnected"}
    /\ ConnectedRxGone
    /\ ctlPc' = "failed"
    /\ optsLock' = IF optsLock = "ctl" THEN "free" ELSE optsLock
    /\ sendFailed' = TRUE
    /\ UNCHANGED <<lstPc, permitsHeld, sessVars, chanVars, ctlMsg, send_code_pending, syncing,
                   cascade, play, file, watchVars, mainVars, boundVars, dlVars, cmdLog, issuedAt, readFailed>>

\* tx_connected.send(ConnectedMessage::Terminate).await completes, main.rs:470
CtlTermConnected ==
    /\ Running /\ ctlPc = "termConnected"
    /\ ~ConnectedRxGone /\ HasRoom(connected)
    /\ connected' = Append(connected, [type |-> "Terminate"])
    /\ cmdLog' = Append(cmdLog, [type |-> "Terminate"])
    /\ issuedAt' = Append(issuedAt, Accepted)
    /\ ctlPc' = "termListen"
    /\ UNCHANGED <<lstPc, permitsHeld, sessVars, listen, conn_notification, controller,
                   notification, ctlMsg, send_code_pending, syncing, cascade, optVars,
                   watchVars, mainVars, boundVars, dlVars, sendFailed, readFailed>>

\* tx_listen.send(ListenMessage::Terminate).await?, main.rs:473
CtlTermListen ==
    /\ Running /\ ctlPc = "termListen"
    /\ IF LstGone
       THEN ctlPc' = "failed" /\ listen' = listen /\ sendFailed' = TRUE
       ELSE HasRoom(listen) /\ listen' = Append(listen, [type |-> "Terminate"])
            /\ ctlPc' = "termNotify" /\ sendFailed' = sendFailed
    /\ UNCHANGED <<lstPc, permitsHeld, sessVars, connected, conn_notification, controller,
                   notification, ctlMsg, send_code_pending, syncing, cascade, optVars,
                   watchVars, mainVars, boundVars, dlVars, cmdLog, issuedAt, readFailed>>

\* tx_notification.send(WorkerNotification::Terminate), Ok(()), main.rs:476-478
CtlTermNotify ==
    /\ Running /\ ctlPc = "termNotify"
    /\ notification' = Append(notification, [type |-> "Terminate"])
    /\ ctlPc' = "done"
    /\ UNCHANGED <<lstPc, permitsHeld, sessVars, connected, listen, conn_notification,
                   controller, ctlMsg, send_code_pending, syncing, cascade, optVars,
                   watchVars, mainVars, boundVars, histVars>>

(* ------------------- watcher tasks, main.rs:509-529 -------------------- *)
\* opts.lock(), canonicalize, read_to_string: the guard is a temporary of the
\* `if let` scrutinee and stays alive until the task returns
WatcherRead ==
    /\ Running /\ wWaiting > 0 /\ wSend = <<>>
    /\ optsLock = "free"
    /\ optsLock' = "watcher"
    /\ wWaiting' = wWaiting - 1
    /\ \E m \in {[type |-> "FileChanged", code |-> file], [type |-> "WatchError"]} :
        /\ wSend' = <<m>>
        /\ readFailed' = (readFailed \/ m.type = "WatchError")
    /\ UNCHANGED <<lstPc, permitsHeld, sessVars, chanVars, ctlVars, play, file, mainVars,
                   boundVars, dlVars, cmdLog, issuedAt, sendFailed>>

\* tx_controller.send(..).await completes and the task returns
WatcherSend ==
    /\ Running /\ wSend # <<>>
    /\ ~CtlGone /\ HasRoom(controller)
    /\ controller' = Append(controller, Head(wSend))
    /\ wSend' = <<>>
    /\ optsLock' = "free"
    /\ UNCHANGED <<lstPc, permitsHeld, sessVars, connected, listen, conn_notification,
                   notification, ctlVars, play, file, wWaiting, mainVars, boundVars, histVars>>

\* tx_controller.send(..).await fails: run_controller has dropped rx_controller;
\* the task returns the error, which nothing reads
WatcherSendFail ==
    /\ Running /\ wSend # <<>>
    /\ CtlGone
    /\ wSend' = <<>>
    /\ optsLock' = "free"
    /\ sendFailed' = TRUE
    /\ UNCHANGED <<lstPc, permitsHeld, sessVars, chanVars, ctlVars, play, file, wWaiting,
                   mainVars, boundVars, dlVars, cmdLog, issuedAt, readFailed>>

(* --------------------- main, interactive mode -------------------------- *)
\* one notification taken by rx_notification.try_iter(), main.rs:697-715
UiNotify ==
    /\ Running /\ mainPc = "ui"
    /\ notification # <<>>
    /\ notification' = Tail(notification)
    /\ LET m == Head(notification) IN
        CASE m.type \in {"Details", "Stopped"} ->
                 dialog' = "initial" /\ UNCHANGED <<mainPc, mainMsg>>
          [] m.type = "Initialized" ->
                 mainPc' = "running" /\ UNCHANGED <<dialog, mainMsg>>
          [] OTHER ->
                 mainPc' = "send" /\ mainMsg' = <<[type |-> "Terminate"]>> /\ dialog' = dialog
    /\ UNCHANGED <<lstPc, permitsHeld, sessVars, connected, listen, conn_notification,
                   controller, ctlVars, optVars, watchVars, exitStatus, boundVars, histVars>>

\* dialog_running: block_on(opts.lock()) to read the play flag, main.rs:663
UiOpenRunning ==
    /\ Running /\ mainPc = "running"
    /\ optsLock = "free"
    /\ dialog' = "running"
    /\ mainPc' = "ui"
    /\ UNCHANGED <<lstPc, permitsHeld, sessVars, chanVars, ctlVars, optVars, watchVars,
                   mainMsg, exitStatus, boundVars, histVars>>

\* the Upload and Download buttons of dialog_initial, main.rs:629-639
UiStart(download) ==
    /\ Running /\ mainPc = "ui" /\ dialog = "initial"
    /\ nEvents < MaxEvents
    /\ nEvents' = nEvents + 1
    /\ mainPc' = "send"
    /\ mainMsg' = <<[type |-> "Start", download |-> download]>>
    /\ UNCHANGED <<lstPc, permitsHeld, sessVars, chanVars, ctlVars, optVars, watchVars,
                   dialog, exitStatus, histVars>>

\* the Stop sync button of dialog_running, main.rs:673-676
UiStop ==
    /\ Running /\ mainPc = "ui" /\ dialog = "running"
    /\ nEvents < MaxEvents
    /\ nEvents' = nEvents + 1
    /\ mainPc' = "send"
    /\ mainMsg' = <<[type |-> "Stop"]>>
    /\ UNCHANGED <<lstPc, permitsHeld, sessVars, chanVars, ctlVars, optVars, watchVars,
                   dialog, exitStatus, histVars>>

\* the play checkbox is clicked: on_change starts block_on(opts.lock()), main.rs:656-661
UiCheckbox ==
    /\ Running /\ mainPc = "ui" /\ dialog = "running"
    /\ nEvents < MaxEvents
    /\ nEvents' = nEvents + 1
    /\ mainPc' = "toggle"
    /\ UNCHANGED <<lstPc, permitsHeld, sessVars, chanVars, ctlVars, optVars, watchVars,
                   mainMsg, dialog, exitStatus, histVars>>

\* opts.lock().await.play = checked, main.rs:659
UiToggle ==
    /\ Running /\ mainPc = "toggle"
    /\ optsLock = "free"
    /\ play' = ~play
    /\ mainPc' = "ui"
    /\ UNCHANGED <<lstPc, permitsHeld, sessVars, chanVars, ctlVars, optsLock, file, watchVars,
                   mainMsg, dialog, exitStatus, boundVars, histVars>>

\* Quit: the UI loop ends and main goes on to send Terminate, main.rs:692-694, 727
UiQuit ==
    /\ Running /\ mainPc = "ui"
    /\ mainPc' = "send"
    /\ mainMsg' = <<[type |-> "Terminate"]>>
    /\ UNCHANGED <<lstPc, permitsHeld, sessVars, chanVars, ctlVars, optVars, watchVars,
                   dialog, exitStatus, boundVars, histVars>>

\* block_on(tx_worker.send(..)) completes, main.rs:632, 637, 674, 727
MainSend ==
    /\ Running /\ mainPc = "send"
    /\ ~CtlGone /\ HasRoom(controller)
    /\ controller' = Append(controller, Head(mainMsg))
    /\ mainPc' = IF Head(mainMsg).type = "Terminate" THEN "join" ELSE "ui"
    /\ mainMsg' = <<>>
    /\ UNCHANGED <<lstPc, permitsHeld, sessVars, connected, listen, conn_notification,
                   notification, ctlVars, optVars, watchVars, dialog, exitStatus, boundVars,
                   histVars>>

\* block_on(tx_worker.send(..)) fails, rx_controller being dropped: `?` on the
\* Terminate of main.rs:727, expect() on the button sends
MainSendFail ==
    /\ Running /\ mainPc = "send"
    /\ CtlGone
    /\ mainPc' = "exited"
    /\ exitStatus' = IF Head(mainMsg).type = "Terminate" THEN "error" ELSE "panic"
    /\ UNCHANGED <<lstPc, permitsHeld, sessVars, chanVars, ctlVars, optVars, watchVars,
                   mainMsg, dialog, boundVars, histVars>>

\* join_handle.join().unwrap()?, main.rs:728-730: the worker thread ends when
\* run_controller returns, and the process ends with main
MainJoin ==
    /\ Running /\ mainPc = "join"
    /\ CtlGone
    /\ mainPc' = "exited"
    /\ exitStatus' = IF ctlPc = "done" THEN "ok" ELSE "error"
    /\ UNCHANGED <<lstPc, permitsHeld, sessVars, chanVars, ctlVars, optVars, watchVars,
                   mainMsg, dialog, boundVars, histVars>>

(* --------------------------- specification ----------------------------- *)
\* steps that take an input from outside the program
Input ==
    \/ ListenerAccept
    \/ \E i \in Conns : SessHandshakeFail(i)
    \/ \E i \in Conns, f \in PeerFrames : SessFrame(i, f)
    \/ \E i \in Conns : SessPeerClosed(i)
    \/ \E c \in Codes : FileModified(c)
    \/ \E d \in BOOLEAN : UiStart(d)
    \/ UiStop \/ UiCheckbox \/ UiQuit

Listener == ListenerBind \/ ListenerBindFail \/ ListenerTerminate

Session(i) ==
    \/ SessHandshake(i) \/ SessLock(i)
    \/ SessNotify(i) \/ SessNotifyFail(i) \/ SessCommand(i) \/ SessChannelClosed(i)

Controller ==
    \/ CtlFileChanged \/ CtlReadPlay \/ CtlSendUpdateCode \/ CtlWatchError
    \/ CtlStart \/ CtlSendAppReady \/ CtlStop \/ CtlTerminate
    \/ CtlDetails \/ CtlCode \/ CtlWrite
    \/ CtlSendFail \/ CtlTermConnected \/ CtlTermListen \/ CtlTermNotify

Watcher == WatcherRead \/ WatcherSend \/ WatcherSendFail

Main == UiNotify \/ UiOpenRunning \/ UiToggle \/ MainSend \/ MainSendFail \/ MainJoin

\* steps the program takes without any new input
Internal == Listener \/ (\E i \in Conns : Session(i)) \/ Controller \/ Watcher \/ Main

Next == Input \/ Internal

Spec == Init /\ [][Next]_vars

(* ------------------------------- claims -------------------------------- *)
\* a connection whose task was spawned through the admission branch and is
\* inside or about to enter the loop of handle_accept
Admitted(i) == kind[i] = "accept" /\ sessPc[i] \in {"handshake", "lock", "select", "notify"}
AdmittedSet == {i \in Conns : Admitted(i)}
InLoop(i) == kind[i] = "accept" /\ sessPc[i] \in {"lock", "select", "notify"}
IsPrefix(s, t) == Len(s) <= Len(t) /\ \A k \in 1..Len(s) : s[k] = t[k]
TermNotified == \E k \in 1..Len(notification) : notification[k].type = "Terminate"
DetailsOf(m) == [title |-> m.title, question_id |-> m.question_id]

\* C1: in every reachable state at most one Session Handler is admitted
\* (spawned through the admission branch and in or about to enter its loop).
C1_AtMostOneAdmitted == Cardinality(AdmittedSet) <= 1

\* C2: every connection accepted while another session is still admitted takes
\* the denial path: the task spawned for it is the denial task, never a session.
C2_BusyAcceptIsDenied ==
    [][\A i \in Conns :
          (sessPc[i] = "idle" /\ sessPc'[i] = "handshake" /\ AdmittedSet # {})
              => kind'[i] = "deny"]_vars

\* C3: the Controller sends UpdateCode for a FileChanged event only while it is
\* Syncing: it is never evaluating or performing that send while not Syncing.
C3_UploadOnlyWhileSyncing == ctlPc \in {"readPlay", "sendUpdate"} => syncing

\* the step in which the Controller performs the write of a Code notification
WriteStep == ctlPc = "write" /\ ctlPc' = "select"
\* the step in which the Controller takes a Code notification while
\* pending-download is clear
CodeDiscardStep ==
    /\ ctlPc = "select" /\ conn_notification # <<>> /\ Head(conn_notification).type = "Code"
    /\ conn_notification' = Tail(conn_notification)
    /\ ~send_code_pending

\* C4 as stated: as C4_DownloadOnce below, and after every write of a Code
\* notification the file holds exactly that code.
C4_FileHoldsCodeAfterWrite ==
    [][WriteStep => file' = ctlMsg]_vars

\* C4, amended: the Controller writes the file only when it handles a Code
\* notification while pending-download is set; if the write succeeds the file
\* then holds exactly that code, and pending-download is false afterwards
\* whatever the result; there is at most one write per Start{download: true};
\* a Code notification handled while pending-download is clear changes neither
\* the file nor the number of writes.
C4_DownloadOnce ==
    /\ [][(writes' # writes \/ (file' # file /\ nEvents' = nEvents))
              => (WriteStep /\ send_code_pending /\ writes' = writes + 1)]_vars
    /\ [][WriteStep => (~send_code_pending' /\ (lastWrite' = "ok" => file' = ctlMsg))]_vars
    /\ [][writes' <= dlStarts']_vars
    /\ [][CodeDiscardStep => (file' = file /\ writes' = writes /\ ctlPc' = "select"
                               /\ ~send_code_pending')]_vars

\* a write has succeeded, the flag is clear, and the next Code notification is
\* in the channel, about to be discarded
C4_Witness ==
    /\ writes = 1 /\ lastWrite = "ok" /\ ~send_code_pending /\ ctlPc = "select"
    /\ conn_notification # <<>> /\ Head(conn_notification).type = "Code"
    /\ Head(conn_notification).code # file

\* C5: when Terminate is handled while Syncing with an admitted session, the
\* Session has left its loop before the Listener's loop exits, and both have
\* happened before Presentation gets the final Terminate notification.
C5_CascadeInOrder ==
    /\ (cascade /\ TermNotified) => (LstGone /\ \A i \in Conns : ~InLoop(i))
    /\ (cascade /\ lstPc = "done") => \A i \in Conns : ~InLoop(i)

\* C6: once Presentation has been sent the final Terminate notification, no
\* write of the target file and no outbound frame to any peer happens.
C6_QuietAfterTerminate ==
    [][TermNotified => (writes' = writes /\ out' = out)]_vars

\* C7: once Terminate has been sent to the Controller, shutdown goes on by
\* itself until the process has exited: some component can always take a step
\* without waiting for a new input from a peer, the file system or the user.
C7_ShutdownProceeds ==
    mainPc = "join" => ENABLED Internal

\* C8: the first frame sent to an admitted connection is `send-details`.
C8_SendDetailsFirst ==
    \A i \in Conns : (kind[i] = "accept" /\ out[i] # <<>>) => out[i][1] = SendDetails

\* an admitted connection has been sent send-details and then another frame
C8_Witness ==
    \E i \in Conns : kind[i] = "accept" /\ Len(out[i]) >= 2 /\ out[i][2].action # "send-details"

\* the Details notifications on their way from a Session Handler to the
\* Controller: in the channel, then in the send a session is suspended in
DetailsInFlight ==
    LET inChannel == SelectSeq(conn_notification, LAMBDA m : m.type = "Details")
        senders == {i \in Conns : sessPc[i] = "notify" /\ Head(sessMsg[i]).type = "Details"}
        inSend == IF senders = {} THEN <<>> ELSE <<Head(sessMsg[CHOOSE i \in senders : TRUE])>>
    IN  [k \in 1..(Len(inChannel) + Len(inSend)) |->
            DetailsOf((inChannel \o inSend)[k])]
\* the Controller has left its loop
CtlLeftLoop == ctlPc \in {"termConnected", "termListen", "termNotify", "done", "failed"}

StopWhileReadyStep ==
    /\ ctlPc = "select" /\ controller # <<>> /\ Head(controller).type = "Stop"
    /\ controller' = Tail(controller)
    /\ ~syncing

\* C10: a Stop handled while not Syncing emits exactly one Stopped
\* notification, leaves pending-download false, writes nothing, sends nothing
\* to the Session and does not end the Controller loop.
C10_StopIdempotent ==
    [][StopWhileReadyStep =>
          /\ notification' = Append(notification, [type |-> "Stopped"])
          /\ ~send_code_pending /\ ~send_code_pending' /\ ~syncing'
          /\ writes' = writes /\ file' = file
          /\ connected' = connected
          /\ ctlPc' = "select"]_vars

\* two consecutive Stop commands have each produced a Stopped notification
C10_Witness ==
    /\ ~syncing /\ ctlPc = "select"
    /\ \E j, k \in 1..Len(notification) :
          j < k /\ notification[j].type = "Stopped" /\ notification[k].type = "Stopped"

\* the wire frame the protocol assigns to a command other than Terminate
WireOf(m) ==
    CASE m.type = "AppReady" -> [action |-> "app-ready"]
      [] m.type = "SendCode" -> [action |-> "send-code"]
      [] OTHER -> [action |-> "update-code", code |-> m.code, play |-> m.play]
\* the frames of s that come from commands
CommandFrames(s) ==
    SelectSeq(s, LAMBDA f : f.action \in {"app-ready", "send-code", "update-code"})
\* the frames of the commands issued so far, in the order of issue
WireLog ==
    LET issued == SelectSeq(cmdLog, LAMBDA m : m.type # "Terminate")
    IN  [k \in 1..Len(issued) |-> WireOf(issued[k])]
RECURSIVE IsSubseq(_, _)
IsSubseq(s, t) ==
    IF s = <<>> THEN TRUE
    ELSE IF t = <<>> THEN FALSE
    ELSE IF Head(s) = Head(t) THEN IsSubseq(Tail(s), Tail(t))
    ELSE IsSubseq(s, Tail(t))
\* the step in which the session of connection i takes a command from rx_connected
CommandStep(i) ==
    /\ sessPc[i] = "select" /\ sessPc'[i] # "select"
    /\ connected # <<>> /\ connected' = Tail(connected)

\* C11: a command taken by a Session Handler is sent to its peer as exactly the
\* corresponding frame and nothing else (app-ready, send-code, or update-code
\* with the code and play of the command), and the session goes on, the only
\* other outcome being a websocket send that fails, which ends the session
\* without a frame; Terminate produces no frame and ends the loop; no other
\* connection gets a frame and nothing is notified; the command frames a peer
\* has received are, in order, among the frames of the commands issued.
C11_CommandsBecomeFrames ==
    /\ [][\A i \in Conns : CommandStep(i) =>
            LET m == Head(connected) IN
              /\ \A j \in Conns \ {i} : out'[j] = out[j]
              /\ conn_notification' = conn_notification /\ notification' = notification
              /\ IF m.type = "Terminate"
                 THEN out'[i] = out[i] /\ sessPc'[i] = "closed"
                 ELSE \/ out'[i] = Append(out[i], WireOf(m)) /\ sessPc'[i] = "lock"
                      \/ out'[i] = out[i] /\ sessPc'[i] = "closed"]_vars
    /\ [][\A i \in Conns : IsSubseq(CommandFrames(out'[i]), WireLog')]_vars

\* a peer has received app-ready and later an update-code frame with play set
C11_Witness ==
    \E i \in Conns : \E k, l \in 1..Len(out[i]) :
        /\ k < l /\ out[i][k] = [action |-> "app-ready"]
        /\ out[i][l].action = "update-code" /\ out[i][l].play /\ out[i][l].code \in Codes

\* the step in which the session of connection i handles an inbound message
FrameStep(i) ==
    sessPc[i] = "select" /\ sessPc'[i] # "select" /\ nEvents' = nEvents + 1

\* C12: no inbound frame is silently dropped: a frame handled by a Session
\* Handler is forwarded as a notification, or answered with an error frame
\* after which the session stays in its loop, the session ending only if that
\* answer cannot be sent.
C12_NoFrameSilentlyDropped ==
    [][\A i \in Conns : FrameStep(i) =>
          \/ sessPc'[i] = "notify" /\ out'[i] = out[i]
          \/ sessPc'[i] = "lock" /\ Len(out'[i]) = Len(out[i]) + 1
                /\ out'[i][Len(out'[i])].action = "error"
          \/ sessPc'[i] = "closed" /\ out'[i] = out[i]]_vars

\* the channels created with async_std::channel::bounded
BoundedChannels == <<connected, listen, conn_notification, controller>>

C14_SendFailureIsFatal == sendFailed => exitStatus # "ok"

\* C15: a Listener that failed to bind makes the process exit with an error:
\* after the failure the process has exited with an error or some component can
\* still take a step towards that exit without a new input from outside.
C15_BindFailureIsFatal ==
    lstPc = "failed" => ((mainPc = "exited" /\ exitStatus = "error") \/ ENABLED Internal)

\* the session of connection j holds the lock around rx_connected and waits in
\* its select! with no command to take
IdleWithLock(j) ==
    rxLock = j /\ sessPc[j] = "select" /\ connected = <<>> /\ ~CtlGone

\* C16: handling a second connection never blocks the session admitted before
\* it: that session is never waiting at the top of its loop for something
\* held by the later connection while the later connection stays idle.
C16_FirstSessionNotBlocked ==
    \A i, j \in Conns :
        (i < j /\ kind[i] = "accept" /\ sessPc[i] = "lock") => ~IdleWithLock(j)

\* C17: the Admission Permit is unavailable for as long as an admitted Session
\* Handler is in its loop.
C17_PermitHeldWhileInLoop ==
    (\E i \in Conns : InLoop(i)) => try_access(permitsHeld) = "NoCapacity"

\* the step in which the Controller takes a Start command
StartStep ==
    /\ ctlPc = "select" /\ controller # <<>> /\ Head(controller).type = "Start"
    /\ controller' = Tail(controller)
\* the step in which an AppReady command is put on the Session command channel
AppReadyStep ==
    /\ Len(connected') = Len(connected) + 1
    /\ connected'[Len(connected')].type = "AppReady"
\* the step in which an Initialized notification is emitted to Presentation
InitializedStep ==
    /\ Len(notification') = Len(notification) + 1
    /\ notification'[Len(notification')].type = "Initialized"

\* C18: a Start{download} handled by the Controller sets pending-download to
\* exactly the download argument and leads to the send of AppReady and to
\* nothing else; AppReady is sent only there, once per Start; Initialized is
\* emitted exactly when that send has completed, never before it and never
\* without it, and pending-download is not touched in between.
C18_StartHandshake ==
    /\ [][StartStep => /\ send_code_pending' = Head(controller).download
                       /\ ctlPc' = "sendAppReady"
                       /\ connected' = connected /\ notification' = notification]_vars
    /\ [][(ctlPc # "sendAppReady" /\ ctlPc' = "sendAppReady") => StartStep]_vars
    /\ [][ctlPc = "sendAppReady" => /\ ctlPc' \in {"sendAppReady", "select", "failed"}
                                    /\ send_code_pending' = send_code_pending]_vars
    /\ [][AppReadyStep <=> (ctlPc = "sendAppReady" /\ ctlPc' = "select")]_vars
    /\ [][InitializedStep <=> AppReadyStep]_vars

\* Start{download: true} then Start{download: false} have been handled, each
\* followed by its Initialized, and the second has overwritten pending-download
C18_Witness ==
    /\ Len(notification) >= 2
    /\ notification[Len(notification) - 1].type = "Initialized"
    /\ notification[Len(notification)].type = "Initialized"
    /\ dlStarts = 1 /\ writes = 0 /\ ~send_code_pending /\ ctlPc = "select"

\* C19: when the write of a Code notification fails the Controller stays in its
\* loop, pending-download is cleared and the write is counted once (no second
\* attempt); pending-download becomes set only by a Start{download: true}, and
\* no write is started or made while it is clear.
C19_FailedWriteNotRetried ==
    /\ [][(WriteStep /\ lastWrite' # "ok")
            => (ctlPc' = "select" /\ ~send_code_pending' /\ writes' = writes + 1)]_vars
    /\ [][(~send_code_pending /\ send_code_pending')
            => (StartStep /\ Head(controller).download)]_vars
    /\ [][(ctlPc # "write" /\ ctlPc' = "write") => send_code_pending]_vars
    /\ [][writes' # writes => (send_code_pending /\ ctlPc = "write")]_vars

\* a write has failed, the flag is clear and the Controller is in its loop
\* with the next Code notification in front of it
C19_Witness ==
    /\ writes = 1 /\ lastWrite \in {"failed", "truncated"}
    /\ ~send_code_pending /\ ctlPc = "select"
    /\ conn_notification # <<>> /\ Head(conn_notification).type = "Code"

\* C20: the play field of an UpdateCode command is the value of the play flag
\* when the Controller evaluates the send for the FileChanged it handles, and
\* the Controller is never suspended in that send with the Configuration lock held.
C20_PlayReadWithoutHoldingLock ==
    /\ [][(ctlPc = "readPlay" /\ ctlPc' = "sendUpdate") => ctlMsg'.play = play]_vars
    /\ [][(ctlPc' = "sendUpdate" /\ Len(connected') >= ChannelCap) => optsLock' # "ctl"]_vars

\* the Controller is suspended in a send on the full Session command channel
CtlSuspendedInSend ==
    /\ ctlPc \in {"sendUpdate", "sendAppReady", "termConnected"}
    /\ Len(connected) >= ChannelCap
\* the session of connection i is suspended in a send on the full notification
\* channel
SessSuspendedInSend(i) ==
    sessPc[i] = "notify" /\ Len(conn_notification) >= ChannelCap

\* C21: the Controller is never suspended in a send on the full Session
\* command channel while a Session Handler is suspended in a send on the full
\* notification channel.
C21_NoMutualSendDeadlock ==
    ~(CtlSuspendedInSend /\ \E i \in Conns : SessSuspendedInSend(i))

\* C22: a command is delivered only to a session whose connection had been
\* accepted when the Controller sent the command: a session connected later
\* gets no frame for it and is not ended by it.
C22_NoStaleCommandDelivered ==
    [][\A i \in Conns : CommandStep(i) => i <= Head(issuedAt)]_vars

\* no upload is under way: no watcher task is pending or sending, and no
\* FileChanged or UpdateCode is in a channel or in the hands of the Controller
UploadsAtRest ==
    /\ wWaiting = 0 /\ wSend = <<>>
    /\ \A k \in 1..Len(controller) : controller[k].type # "FileChanged"
    /\ ctlPc \notin {"readPlay", "sendUpdate"}
    /\ \A k \in 1..Len(connected) : connected[k].type # "UpdateCode"
\* the update-code frames of s
UpdateFrames(s) == SelectSeq(s, LAMBDA f : f.action = "update-code")

\* C23: uploads converge to the file: when the modifications have stopped and
\* every upload has gone through (every read of the file having succeeded and
\* the Controller being in its loop), the last update-code frame delivered to
\* the peer of a session that is in its loop carries the content of the file.
\* (Stated for every state of the Controller, Syncing or not: its handling of
\* FileChanged does not depend on Start and Stop.)
C23_UploadsConverge ==
    (UploadsAtRest /\ ~readFailed /\ ~CtlLeftLoop) =>
        \A i \in Conns :
            (InLoop(i) /\ UpdateFrames(out[i]) # <<>>) =>
                UpdateFrames(out[i])[Len(UpdateFrames(out[i]))].code = file

====
